---- MODULE Spec2Model ----
(***************************************************************************)
(* The render-state example of luminance (examples/02-render-state):       *)
(* two triangles, a draw-order toggle (space), a blending toggle (b),      *)
(* quit on close/escape, and the per-frame pipeline -> shade -> render     *)
(* nesting followed by swap_buffers.                                       *)
(***************************************************************************)
EXTENDS Integers, Sequences, FiniteSets, TLC

VARIABLES
  pc,            \* position of main() in its body
  batch,         \* events of the current surface.poll_events() not yet dispatched
  depth_method,  \* let mut depth_method (line 77)
  blending,      \* let mut blending (line 76)
  back_buffer,   \* let mut back_buffer (line 74): the size it was built with
  render_state,  \* let render_state (line 107), local of the shade closure
  arm,           \* the arm of `match depth_method` (line 115) being executed
  frame,         \* the commands issued to the GPU/window in this iteration
  screen,        \* the commands of the frame last presented by swap_buffers
  polled,        \* history: number of events delivered by poll_events so far
  toggles,       \* history: number of space-release events dispatched
  btoggles,      \* history: number of b-release events dispatched
  lastResize,    \* history: <<width, height>> of the last resize event dispatched
  bRun,          \* history: blending before each of the (at most two) latest
                 \* b-release events dispatched with no other event in between
  lastEvent      \* history: the last event taken from the batch

vars == <<pc, batch, depth_method, blending, back_buffer, render_state, arm,
          frame, screen, polled, toggles, btoggles, lastResize, bRun, lastEvent>>

(* ------------------------------ bounds --------------------------------- *)

\* the longest batch one poll_events() call yields
MaxBatch == 3
\* the number of events the windowing system delivers over the whole run
MaxEvents == 3

(* ------------------------- program constants --------------------------- *)

\* WindowDim::Windowed(960, 540)
InitWidth == 960
InitHeight == 540
\* 2^16: a u32 is kept as its two 16-bit halves, value = hi * 2^16 + lo
Half == 65536

(* ------------------------------ values --------------------------------- *)

\* Option<T>
None == <<>>
Some(x) == <<x>>

\* enum DepthMethod
DepthMethods == {"Under", "Atop"}

\* type Blending = Option<(Equation, Factor, Factor)>
Additive == <<"Additive", "One", "One">>

Keys == {"Escape", "Space", "B", "A"}
Actions == {"Press", "Release", "Repeat"}

\* the framebuffer sizes the windowing system reports on a resize
Sizes == {<<0, 0>>, <<800, 600>>}

Close == [type |-> "Close"]
Key(k, a) == [type |-> "Key", key |-> k, action |-> a]
FramebufferSize(w, h) == [type |-> "FramebufferSize", width |-> w, height |-> h]
Focus == [type |-> "Focus"]

\* the WindowEvent values the model delivers (scancode and modifiers of Key
\* are matched by wildcards everywhere and are left out)
Events ==
  {Close, Focus}
    \cup {Key(k, a) : k \in Keys, a \in Actions}
    \cup {FramebufferSize(s[1], s[2]) : s \in Sizes}

\* resize events over the whole i32 range of the event's fields: what the
\* type of WindowEvent::FramebufferSize(i32, i32) admits
SizesI32 == {<<-1, 600>>, <<800, -2147483647 - 1>>, <<2147483647, 0>>}

EventsI32 == Events \cup {FramebufferSize(s[1], s[2]) : s \in SizesI32}

\* one event for each arm of the match (two for the first), which is all
\* that the progress of the loop depends on
EventsLive ==
  {Close, Key("Escape", "Release"), Key("Space", "Release"), Key("B", "Release"),
   FramebufferSize(800, 600), Key("Space", "Press")}

Min(a, b) == IF a < b THEN a ELSE b

\* the batches one poll_events() call can yield when n events are still to come
Batches(n) == UNION {[1..k -> Events] : k \in 0..Min(MaxBatch, n)}

\* the same, with the resize events of EventsI32
BatchesI32(n) == UNION {[1..k -> EventsI32] : k \in 0..Min(MaxBatch, n)}

\* the same, with the events of EventsLive
BatchesLive(n) == UNION {[1..k -> EventsLive] : k \in 0..Min(MaxBatch, n)}

(* --------------------------- pure functions ---------------------------- *)

\* mutant: the Atop arm returns Atop
toggle_stuck(self) ==
  CASE self = "Under" -> "Atop"
    [] self = "Atop" -> "Atop"

\* DepthMethod::toggle
toggle(self) ==
  CASE self = "Under" -> "Atop"
    [] self = "Atop" -> "Under"

\* mutant: the wildcard arm returns the additive triple too
toggle_blending_stuck(b) == Some(Additive)

\* mutant: the None arm returns None
toggle_blending_off(b) == None

\* toggle_blending
toggle_blending(b) == IF b = None THEN Some(Additive) ELSE None

\* mutant: a negative value is clamped to 0
as_u32_clamped(v) ==
  IF v < 0 THEN [hi |-> 0, lo |-> 0]
  ELSE [hi |-> (v \div Half) % Half, lo |-> v % Half]

\* `v as u32` for an i32 v: the two's complement bits of v, unchanged
as_u32(v) == [hi |-> (v \div Half) % Half, lo |-> v % Half]

\* Framebuffer::back_buffer(size: [u32; 2]), kept as the size it reports
Framebuffer_back_buffer(size) == [width |-> size[1], height |-> size[2]]

\* surface.size() of the window created by WindowDim::Windowed(960, 540)
surface_size == <<as_u32(InitWidth), as_u32(InitHeight)>>

\* mutant: RenderState::default() is used as it is, depth test enabled
RenderStateOf_default(b) == [depth_test |-> "Enabled", blending |-> b]

\* RenderState::default().set_depth_test(DepthTest::Disabled).set_blending(b)
RenderStateOf(b) == [depth_test |-> "Disabled", blending |-> b]

\* mutant: the arms of the match are exchanged
order_swapped(dm) ==
  CASE dm = "Under" -> <<"blue_triangle", "red_triangle">>
    [] dm = "Atop" -> <<"red_triangle", "blue_triangle">>

\* mutant: both arms draw the red triangle first
order_same(dm) == <<"red_triangle", "blue_triangle">>

\* the two tess_gate.render calls of each arm of `match depth_method`
order(dm) ==
  CASE dm = "Under" -> <<"red_triangle", "blue_triangle">>
    [] dm = "Atop" -> <<"blue_triangle", "red_triangle">>

\* mutant: the pattern takes any action of the space key
IsSpaceRelease_anyAction(e) == e.type = "Key" /\ e.key = "Space"

\* mutant: the quit pattern takes any action of the escape key
IsQuit_anyEscape(e) ==
  \/ e.type = "Close"
  \/ e.type = "Key" /\ e.key = "Escape"

\* mutant: the quit pattern lacks the escape alternative
IsQuit_closeOnly(e) == e.type = "Close"

\* the patterns of the match on the event, in source order
IsQuit(e) ==
  \/ e.type = "Close"
  \/ e.type = "Key" /\ e.key = "Escape" /\ e.action = "Release"

IsSpaceRelease(e) == e.type = "Key" /\ e.key = "Space" /\ e.action = "Release"

IsBRelease(e) == e.type = "Key" /\ e.key = "B" /\ e.action = "Release"

IsFramebufferSize(e) == e.type = "FramebufferSize"

(* ------------------------- geometry and pixels ------------------------- *)

\* const TRI_VERTICES, positions in units of 0.25 and colours in units of
\* the full intensity 1.0
TRI_VERTICES ==
  << [pos |-> << 2, -2>>, color |-> <<1, 0, 0>>],
     [pos |-> << 0,  2>>, color |-> <<1, 0, 0>>],
     [pos |-> <<-2, -2>>, color |-> <<1, 0, 0>>],
     [pos |-> <<-2,  2>>, color |-> <<0, 0, 1>>],
     [pos |-> << 0, -2>>, color |-> <<0, 0, 1>>],
     [pos |-> << 2,  2>>, color |-> <<0, 0, 1>>] >>

\* Tess::new(.., &TRI_VERTICES[0..3], ..) and Tess::new(.., &TRI_VERTICES[3..6], ..)
Tess(t) ==
  CASE t = "red_triangle" -> SubSeq(TRI_VERTICES, 1, 3)
    [] t = "blue_triangle" -> SubSeq(TRI_VERTICES, 4, 6)

\* the sample points of the target, in the same units
Points == (-2..2) \X (-2..2)

\* on which side of the edge a -> b the point p lies
EdgeSide(a, b, p) == (b[1] - a[1]) * (p[2] - a[2]) - (b[2] - a[2]) * (p[1] - a[1])

\* rasterisation: p lies strictly inside the triangle t
Covers(t, p) ==
  LET v == Tess(t)
      e1 == EdgeSide(v[1].pos, v[2].pos, p)
      e2 == EdgeSide(v[2].pos, v[3].pos, p)
      e3 == EdgeSide(v[3].pos, v[1].pos, p)
  IN (e1 > 0 /\ e2 > 0 /\ e3 > 0) \/ (e1 < 0 /\ e2 < 0 /\ e3 < 0)

\* the colour of a fragment of t: the colour its three vertices share
FragColor(t) == Tess(t)[1].color

\* blending factor
FactorOf(f) == CASE f = "One" -> 1 [] f = "Zero" -> 0

\* the colour written by a fragment src over dst: src replaces dst without
\* blending; with an additive equation the weighted sum, clamped to the
\* full intensity
Blend(b, src, dst) ==
  IF b = None THEN src
  ELSE [i \in 1..3 |-> Min(1, src[i] * FactorOf(b[1][2]) + dst[i] * FactorOf(b[1][3]))]

\* the effect of one command on the colour px of the point p
Apply(c, p, px) ==
  CASE c.op = "clear" -> <<c.color[1], c.color[2], c.color[3]>>
    [] c.op = "draw" -> IF Covers(c.tess, p)
                        THEN Blend(c.render_state.blending, FragColor(c.tess), px)
                        ELSE px
    [] OTHER -> px

RECURSIVE Exec(_, _, _)
\* the colour of p after the commands cmds, executed in order from px
Exec(cmds, p, px) ==
  IF cmds = <<>> THEN px ELSE Exec(Tail(cmds), p, Apply(Head(cmds), p, px))

\* the colour of p after this iteration's commands (the clear that opens a
\* frame overwrites whatever the buffer held)
Pixel(p) == Exec(frame, p, <<0, 0, 0>>)

(* -------------------------------- Init --------------------------------- *)

Init ==
  /\ pc = "new_surface"
  /\ batch = <<>>
  /\ depth_method = "Under"
  /\ blending = None
  /\ back_buffer = Framebuffer_back_buffer(surface_size)
  /\ render_state = RenderStateOf(None)
  /\ arm = "Under"
  /\ frame = <<>>
  /\ screen = <<>>
  /\ polled = 0
  /\ toggles = 0
  /\ btoggles = 0
  /\ lastResize = None
  /\ bRun = <<>>
  /\ lastEvent = None

state == <<depth_method, blending, back_buffer>>
locals == <<render_state, arm>>
history == <<polled, toggles, btoggles, lastResize, bRun, lastEvent>>

(* ------------------------------- history ------------------------------- *)

\* the kinds of event the claims speak of, read off the event itself
SpaceRelease == Key("Space", "Release")
BRelease == Key("B", "Release")
EscapeRelease == Key("Escape", "Release")
QuitEvents == {Close, EscapeRelease}
ResizeEvents == {FramebufferSize(s[1], s[2]) : s \in Sizes}
IgnoredEvents == Events \ (QuitEvents \cup {SpaceRelease, BRelease} \cup ResizeEvents)

\* what the history variables note when event e is taken from the batch
Record(e) ==
  /\ lastEvent' = Some(e)
  /\ toggles' = IF e = SpaceRelease THEN toggles + 1 ELSE toggles
  /\ btoggles' = IF e = BRelease THEN btoggles + 1 ELSE btoggles
  /\ lastResize' = IF e.type = "FramebufferSize" THEN Some(<<e.width, e.height>>)
                   ELSE lastResize
  /\ bRun' = IF e # BRelease THEN <<>>
             ELSE IF Len(bRun) < 2 THEN Append(bRun, blending)
             ELSE <<bRun[2], blending>>

(* ------------------------------- startup ------------------------------- *)

\* GlfwSurface::new(WindowDim::Windowed(960, 540), ..): Ok or Err
NewSurface ==
  /\ pc = "new_surface"
  /\ \E ok \in BOOLEAN : pc' = IF ok THEN "surface_ok" ELSE "surface_err"
  /\ UNCHANGED <<screen, batch, state, locals, frame, history>>

\* .expect("GLFW surface creation"): panics on Err
ExpectSurface ==
  /\ pc \in {"surface_ok", "surface_err"}
  /\ pc' = IF pc = "surface_ok" THEN "from_strings" ELSE "panicked"
  /\ UNCHANGED <<screen, batch, state, locals, frame, history>>

\* Program::from_strings(None, VS, None, FS): Ok or Err
ProgramFromStrings ==
  /\ pc = "from_strings"
  /\ \E ok \in BOOLEAN : pc' = IF ok THEN "program_ok" ELSE "program_err"
  /\ UNCHANGED <<screen, batch, state, locals, frame, history>>

\* mutant: the Err of from_strings is dropped and main goes on
ExpectProgram_ignored ==
  /\ pc \in {"program_ok", "program_err"}
  /\ pc' = "poll"
  /\ UNCHANGED <<screen, batch, state, locals, frame, history>>

\* .expect("program creation"): panics on Err; on Ok the two Tess::new
\* calls and the initial values of lines 74-77 follow
ExpectProgram ==
  /\ pc \in {"program_ok", "program_err"}
  /\ pc' = IF pc = "program_ok" THEN "poll" ELSE "panicked"
  /\ UNCHANGED <<screen, batch, state, locals, frame, history>>

(* ------------------------------ event loop ----------------------------- *)

\* top of 'app: surface.poll_events()
PollEvents ==
  /\ pc = "poll"
  /\ \E b \in Batches(MaxEvents - polled) :
       /\ batch' = b
       /\ polled' = polled + Len(b)
  /\ pc' = "drain"
  /\ frame' = <<>>
  /\ UNCHANGED <<screen, state, locals, toggles, btoggles, lastResize, bRun, lastEvent>>

\* top of 'app: surface.poll_events(), over EventsI32
PollEventsI32 ==
  /\ pc = "poll"
  /\ \E b \in BatchesI32(MaxEvents - polled) :
       /\ batch' = b
       /\ polled' = polled + Len(b)
  /\ pc' = "drain"
  /\ frame' = <<>>
  /\ UNCHANGED <<screen, state, locals, toggles, btoggles, lastResize, bRun, lastEvent>>

\* mutant: the call waits until at least one event is there
PollEventsLive_blocking ==
  /\ pc = "poll"
  /\ \E b \in BatchesLive(MaxEvents - polled) \ {<<>>} :
       /\ batch' = b
       /\ polled' = polled + Len(b)
  /\ pc' = "drain"
  /\ frame' = <<>>
  /\ UNCHANGED <<screen, state, locals, toggles, btoggles, lastResize, bRun, lastEvent>>

\* top of 'app: surface.poll_events(), over EventsLive
PollEventsLive ==
  /\ pc = "poll"
  /\ \E b \in BatchesLive(MaxEvents - polled) :
       /\ batch' = b
       /\ polled' = polled + Len(b)
  /\ pc' = "drain"
  /\ frame' = <<>>
  /\ UNCHANGED <<screen, state, locals, toggles, btoggles, lastResize, bRun, lastEvent>>

\* mutant: the arm does not break out of 'app
DispatchQuit_continue ==
  /\ pc = "drain"
  /\ batch # <<>>
  /\ IsQuit(Head(batch))
  /\ batch' = Tail(batch)
  /\ Record(Head(batch))
  /\ UNCHANGED <<screen, pc, state, locals, frame, polled>>

\* WindowEvent::Close | WindowEvent::Key(Key::Escape, _, Action::Release, _)
DispatchQuit ==
  /\ pc = "drain"
  /\ batch # <<>>
  /\ IsQuit(Head(batch))
  /\ pc' = "done"
  /\ batch' = Tail(batch)
  /\ Record(Head(batch))
  /\ UNCHANGED <<screen, state, locals, frame, polled>>

\* mutant: the arm also switches blending off
DispatchSpace_resetsBlending ==
  /\ pc = "drain"
  /\ batch # <<>>
  /\ ~IsQuit(Head(batch))
  /\ IsSpaceRelease(Head(batch))
  /\ depth_method' = toggle(depth_method)
  /\ blending' = None
  /\ batch' = Tail(batch)
  /\ Record(Head(batch))
  /\ UNCHANGED <<screen, pc, back_buffer, locals, frame, polled>>

\* WindowEvent::Key(Key::Space, _, Action::Release, _)
DispatchSpace ==
  /\ pc = "drain"
  /\ batch # <<>>
  /\ ~IsQuit(Head(batch))
  /\ IsSpaceRelease(Head(batch))
  /\ depth_method' = toggle(depth_method)
  /\ batch' = Tail(batch)
  /\ Record(Head(batch))
  /\ UNCHANGED <<screen, pc, blending, back_buffer, locals, frame, polled>>

\* WindowEvent::Key(Key::B, _, Action::Release, _)
DispatchB ==
  /\ pc = "drain"
  /\ batch # <<>>
  /\ ~IsQuit(Head(batch))
  /\ ~IsSpaceRelease(Head(batch))
  /\ IsBRelease(Head(batch))
  /\ blending' = toggle_blending(blending)
  /\ batch' = Tail(batch)
  /\ Record(Head(batch))
  /\ UNCHANGED <<screen, pc, depth_method, back_buffer, locals, frame, polled>>

\* mutant: width and height are passed in the wrong order
DispatchFramebufferSize_swapped ==
  /\ pc = "drain"
  /\ batch # <<>>
  /\ ~IsQuit(Head(batch))
  /\ ~IsSpaceRelease(Head(batch))
  /\ ~IsBRelease(Head(batch))
  /\ IsFramebufferSize(Head(batch))
  /\ back_buffer' = Framebuffer_back_buffer(
                      <<as_u32(Head(batch).height), as_u32(Head(batch).width)>>)
  /\ batch' = Tail(batch)
  /\ Record(Head(batch))
  /\ UNCHANGED <<screen, pc, depth_method, blending, locals, frame, polled>>

\* WindowEvent::FramebufferSize(width, height)
DispatchFramebufferSize ==
  /\ pc = "drain"
  /\ batch # <<>>
  /\ ~IsQuit(Head(batch))
  /\ ~IsSpaceRelease(Head(batch))
  /\ ~IsBRelease(Head(batch))
  /\ IsFramebufferSize(Head(batch))
  /\ back_buffer' = Framebuffer_back_buffer(
                      <<as_u32(Head(batch).width), as_u32(Head(batch).height)>>)
  /\ batch' = Tail(batch)
  /\ Record(Head(batch))
  /\ UNCHANGED <<screen, pc, depth_method, blending, locals, frame, polled>>

\* _ => ()
DispatchOther ==
  /\ pc = "drain"
  /\ batch # <<>>
  /\ ~IsQuit(Head(batch))
  /\ ~IsSpaceRelease(Head(batch))
  /\ ~IsBRelease(Head(batch))
  /\ ~IsFramebufferSize(Head(batch))
  /\ batch' = Tail(batch)
  /\ Record(Head(batch))
  /\ UNCHANGED <<screen, pc, state, locals, frame, polled>>

\* mutant: the for loop stops one event early
EndDrain_early ==
  /\ pc = "drain"
  /\ Len(batch) <= 1
  /\ pc' = "pipeline"
  /\ UNCHANGED <<screen, batch, state, locals, frame, history>>

\* the for loop ends when the iterator is exhausted
EndDrain ==
  /\ pc = "drain"
  /\ batch = <<>>
  /\ pc' = "pipeline"
  /\ UNCHANGED <<screen, batch, state, locals, frame, history>>

(* --------------------------- frame compositor -------------------------- *)

\* mutant: the clear colour is opaque black
Pipeline_opaqueBlack ==
  /\ pc = "pipeline"
  /\ frame' = Append(frame, [op |-> "clear", target |-> back_buffer,
                             color |-> <<0, 0, 0, 1>>])
  /\ pc' = "shade"
  /\ UNCHANGED <<screen, batch, state, locals, history>>

\* surface.pipeline_builder().pipeline(&back_buffer, [0., 0., 0., 0.], ..)
Pipeline ==
  /\ pc = "pipeline"
  /\ frame' = Append(frame, [op |-> "clear", target |-> back_buffer,
                             color |-> <<0, 0, 0, 0>>])
  /\ pc' = "shade"
  /\ UNCHANGED <<screen, batch, state, locals, history>>

\* shd_gate.shade(&program, ..)
Shade ==
  /\ pc = "shade"
  /\ frame' = Append(frame, [op |-> "bind", program |-> "program"])
  /\ pc' = "render_state"
  /\ UNCHANGED <<screen, batch, state, locals, history>>

\* mutant: the descriptor is built once and kept across frames
BuildRenderState_stale ==
  /\ pc = "render_state"
  /\ pc' = "render"
  /\ UNCHANGED <<screen, batch, state, locals, frame, history>>

\* let render_state = RenderState::default().set_depth_test(..).set_blending(..)
BuildRenderState ==
  /\ pc = "render_state"
  /\ render_state' = RenderStateOf(blending)
  /\ pc' = "render"
  /\ UNCHANGED <<screen, batch, state, arm, frame, history>>

\* rdr_gate.render(render_state, ..) and the match on depth_method
Render ==
  /\ pc = "render"
  /\ arm' = depth_method
  /\ pc' = "tess1"
  /\ UNCHANGED <<screen, batch, state, render_state, frame, history>>

\* the first tess_gate.render of the arm
TessRenderFirst ==
  /\ pc = "tess1"
  /\ frame' = Append(frame, [op |-> "draw", tess |-> order(arm)[1],
                             render_state |-> render_state])
  /\ pc' = "tess2"
  /\ UNCHANGED <<screen, batch, state, locals, history>>

\* mutant: the second call of the arm renders the first triangle again
TessRenderSecond_repeatsFirst ==
  /\ pc = "tess2"
  /\ frame' = Append(frame, [op |-> "draw", tess |-> order(arm)[1],
                             render_state |-> render_state])
  /\ pc' = "swap"
  /\ UNCHANGED <<screen, batch, state, locals, history>>

\* the second tess_gate.render of the arm
TessRenderSecond ==
  /\ pc = "tess2"
  /\ frame' = Append(frame, [op |-> "draw", tess |-> order(arm)[2],
                             render_state |-> render_state])
  /\ pc' = "swap"
  /\ UNCHANGED <<screen, batch, state, locals, history>>

\* surface.swap_buffers()
SwapBuffers ==
  /\ pc = "swap"
  /\ frame' = Append(frame, [op |-> "present"])
  /\ screen' = frame
  /\ pc' = "poll"
  /\ UNCHANGED <<batch, state, locals, history>>

Next ==
  \/ NewSurface
  \/ ExpectSurface
  \/ ProgramFromStrings
  \/ ExpectProgram
  \/ PollEvents
  \/ DispatchQuit
  \/ DispatchSpace
  \/ DispatchB
  \/ DispatchFramebufferSize
  \/ DispatchOther
  \/ EndDrain
  \/ Pipeline
  \/ Shade
  \/ BuildRenderState
  \/ Render
  \/ TessRenderFirst
  \/ TessRenderSecond
  \/ SwapBuffers

Spec == Init /\ [][Next]_vars

\* the program fed with the events of EventsLive
NextLive ==
  \/ NewSurface
  \/ ExpectSurface
  \/ ProgramFromStrings
  \/ ExpectProgram
  \/ PollEventsLive
  \/ DispatchQuit
  \/ DispatchSpace
  \/ DispatchB
  \/ DispatchFramebufferSize
  \/ DispatchOther
  \/ EndDrain
  \/ Pipeline
  \/ Shade
  \/ BuildRenderState
  \/ Render
  \/ TessRenderFirst
  \/ TessRenderSecond
  \/ SwapBuffers

\* main runs on one thread that is never suspended for good: whenever a
\* next step of the program exists, one is eventually taken
FairSpec == Init /\ [][NextLive]_vars /\ WF_vars(NextLive)

\* the program fed with resize events over the whole i32 range
NextI32 ==
  \/ NewSurface
  \/ ExpectSurface
  \/ ProgramFromStrings
  \/ ExpectProgram
  \/ PollEventsI32
  \/ DispatchQuit
  \/ DispatchSpace
  \/ DispatchB
  \/ DispatchFramebufferSize
  \/ DispatchOther
  \/ EndDrain
  \/ Pipeline
  \/ Shade
  \/ BuildRenderState
  \/ Render
  \/ TessRenderFirst
  \/ TessRenderSecond
  \/ SwapBuffers

SpecI32 == Init /\ [][NextI32]_vars

(* ------------------------------- claims -------------------------------- *)

IsDraw(c) == c.op = "draw"
IsClear(c) == c.op = "clear"
IsPresent(c) == c.op = "present"

\* the draw calls issued so far in this iteration, in order
Draws == SelectSeq(frame, IsDraw)
\* the triangles of those draw calls
DrawnTess == [i \in 1..Len(Draws) |-> Draws[i].tess]
\* whether this iteration's frame has been presented
Presented == SelectSeq(frame, IsPresent) # <<>>
\* the main loop is inside the frame compositor
InFrame == pc \in {"pipeline", "shade", "render_state", "render", "tess1", "tess2", "swap"}
\* this step takes the first event of the batch and dispatches it
Dispatch == pc = "drain" /\ batch # <<>> /\ batch' = Tail(batch)
\* the integer a u32 stands for, when it is below 2^31
U32Is(u, n) == u.hi < 32768 /\ u.hi * Half + u.lo = n

\* C1: the draw-order state is Under after an even number of dispatched
\* space-release events and Atop after an odd number (Under at the start,
\* with none dispatched); it is never anything else.
C1_ToggleParity ==
  /\ depth_method \in {"Under", "Atop"}
  /\ toggles % 2 = 0 => depth_method = "Under"
  /\ toggles % 2 = 1 => depth_method = "Atop"

C1_Witness == toggles = 3 /\ depth_method = "Atop"

\* C2: the draw calls of a frame are a prefix of red, blue when the
\* draw-order state is Under and of blue, red when it is Atop; a presented
\* frame holds exactly that pair.
C2_DrawOrder ==
  LET want == IF depth_method = "Under"
              THEN <<"red_triangle", "blue_triangle">>
              ELSE <<"blue_triangle", "red_triangle">>
  IN /\ Len(DrawnTess) <= 2
     /\ DrawnTess = SubSeq(want, 1, Len(DrawnTess))
     /\ Presented => DrawnTess = want

C2_Witness ==
  /\ Presented
  /\ depth_method = "Atop"
  /\ DrawnTess = <<"blue_triangle", "red_triangle">>

\* C3: toggle_blending applied twice gives back None and the additive
\* triple; after two consecutive b-release events blending is what it was
\* before them, and when that was None the descriptor built for the next
\* frame is the initial one (depth test Disabled, blending None).
C3_BlendingInvolution ==
  /\ \A x \in {None, Some(Additive)} : toggle_blending(toggle_blending(x)) = x
  /\ Len(bRun) = 2 => blending = bRun[1]
  /\ (Len(bRun) = 2 /\ bRun[1] = None /\ pc \in {"render", "tess1", "tess2", "swap"})
       => render_state = [depth_test |-> "Disabled", blending |-> None]

C3_Witness ==
  /\ bRun = <<None, Some(Additive)>>
  /\ blending = None
  /\ pc = "swap"
  /\ render_state = [depth_test |-> "Disabled", blending |-> None]

\* C4: a frame holds at most two draw calls, and a presented frame exactly
\* two, one of each triangle; each draw call carries the descriptor built
\* in this invocation from the blending state left by this iteration's
\* event drain.
C4_TwoDrawsOneDescriptor ==
  /\ Len(Draws) <= 2
  /\ \A i \in 1..Len(Draws) :
       /\ Draws[i].render_state = render_state
       /\ Draws[i].render_state.blending = blending
  /\ pc \in {"render", "tess1", "tess2", "swap"} => render_state.blending = blending
  /\ pc \in {"swap"} \/ Presented =>
       /\ Len(Draws) = 2
       /\ {Draws[1].tess, Draws[2].tess} = {"red_triangle", "blue_triangle"}
       /\ Draws[1].render_state = Draws[2].render_state

\* a presented frame whose drain dispatched a b-release: both draws are additive
C4_Witness ==
  /\ Presented
  /\ btoggles = 1
  /\ lastEvent = Some(BRelease)
  /\ polled = 1
  /\ Len(Draws) = 2
  /\ Draws[2].render_state.blending = Some(Additive)

\* C5: blending is None or the additive triple; it is None after an even
\* number of dispatched b-release events (none at the start) and the
\* additive triple after an odd number.
C5_BlendingAlternates ==
  /\ blending \in {None, Some(<<"Additive", "One", "One">>)}
  /\ btoggles % 2 = 0 => blending = None
  /\ btoggles % 2 = 1 => blending = Some(<<"Additive", "One", "One">>)

C5_Witness == btoggles = 3 /\ blending = Some(<<"Additive", "One", "One">>)

\* C6: dispatching a space-release event changes the draw-order state and
\* leaves blending and the back buffer alone; dispatching a b-release event
\* changes blending and leaves the draw-order state and the back buffer alone.
C6_IndependentToggles ==
  [][Dispatch =>
       /\ Head(batch) = SpaceRelease =>
            /\ depth_method' # depth_method
            /\ blending' = blending
            /\ back_buffer' = back_buffer
       /\ Head(batch) = BRelease =>
            /\ blending' # blending
            /\ depth_method' = depth_method
            /\ back_buffer' = back_buffer]_vars

\* a space-release was dispatched while blending was additive
C6_Witness ==
  /\ lastEvent = Some(SpaceRelease)
  /\ toggles = 1
  /\ btoggles = 1
  /\ depth_method = "Atop"
  /\ blending = Some(Additive)

\* C7: once a resize event was dispatched, the back buffer and the target
\* of every later clear have the width and height of the most recent one;
\* dispatching a resize event changes neither the draw-order state nor
\* blending.
C7_ResizeTargets ==
  /\ [](lastResize # None =>
         /\ U32Is(back_buffer.width, lastResize[1][1])
         /\ U32Is(back_buffer.height, lastResize[1][2])
         /\ \A i \in 1..Len(frame) :
              IsClear(frame[i]) =>
                /\ U32Is(frame[i].target.width, lastResize[1][1])
                /\ U32Is(frame[i].target.height, lastResize[1][2]))
  /\ [][Dispatch /\ Head(batch) \in ResizeEvents =>
          depth_method' = depth_method /\ blending' = blending]_vars

\* a frame cleared at 800 x 600 after a resize to 0 x 0 and one to 800 x 600
C7_Witness ==
  /\ lastResize = Some(<<800, 600>>)
  /\ polled = 2
  /\ toggles = 0
  /\ btoggles = 0
  /\ lastEvent = Some(FramebufferSize(800, 600))
  /\ Presented
  /\ U32Is(frame[1].target.width, 800)
  /\ U32Is(frame[1].target.height, 600)

\* C8: dispatching an event that is neither close, escape-release,
\* space-release, b-release nor a resize leaves the draw-order state,
\* blending and the back buffer alone and stays in the event drain (no exit,
\* no panic).
C8_OthersIgnored ==
  [][Dispatch /\ Head(batch) \in IgnoredEvents =>
       /\ depth_method' = depth_method
       /\ blending' = blending
       /\ back_buffer' = back_buffer
       /\ pc' = "drain"]_vars

\* a press of the space key went through the drain and changed nothing
C8_Witness ==
  /\ lastEvent = Some(Key("Space", "Press"))
  /\ pc = "tess1"
  /\ polled = 1
  /\ depth_method = "Under"
  /\ blending = None

\* C9: no command of the frame compositor (clear, bind, draw, present) is
\* issued, and the compositor is not entered, while an event of the polled
\* batch is still pending.
C9_DrainBeforeFrame == (InFrame \/ frame # <<>>) => batch = <<>>

\* a frame in progress after three events, all dispatched
C9_Witness ==
  /\ polled = 3
  /\ toggles = 1
  /\ btoggles = 1
  /\ lastResize # None
  /\ Len(frame) = 1
  /\ pc = "shade"

\* C10 as stated: the loop is left at an iteration boundary, with the frame
\* of the iteration that saw the quit event completed and presented, and
\* every presented frame holds its two draw calls.
C10_ExitAfterFrame ==
  /\ pc = "done" => Presented /\ Len(Draws) = 2
  /\ Presented => Len(Draws) = 2

\* C10 as amended: once a close or escape-release event is dispatched the
\* loop has been left, from inside the event drain and before anything of
\* that iteration's frame was issued; the loop is left on no other
\* occasion, so never inside a frame, and every presented frame holds its
\* two draw calls.
C10_ExitFromDrain ==
  /\ (lastEvent # None /\ lastEvent[1] \in QuitEvents) => pc = "done"
  /\ pc = "done" => lastEvent # None /\ lastEvent[1] \in QuitEvents /\ frame = <<>>
  /\ Presented => Len(Draws) = 2

\* escape-release dispatched after a space-release of the same batch
C10_Witness ==
  /\ pc = "done"
  /\ lastEvent = Some(EscapeRelease)
  /\ toggles = 1
  /\ polled = 2
  /\ frame = <<>>

\* C11: taking an event from the batch leaves the loop exactly when the
\* event is close or escape-release, and never panics; the loop is left by
\* no other step.
C11_QuitIffCloseOrEscape ==
  /\ [][Dispatch =>
          /\ pc' = "done" <=> Head(batch) \in QuitEvents
          /\ pc' # "panicked"]_vars
  /\ [][(pc # "done" /\ pc' = "done") => (Dispatch /\ Head(batch) \in QuitEvents)]_vars

\* the loop was left by a close event after two frames' worth of other events
C11_Witness ==
  /\ pc = "done"
  /\ lastEvent = Some(Close)
  /\ polled = 3
  /\ toggles = 1
  /\ btoggles = 1

\* the operations of the commands issued in this iteration, in order
FrameOps == [i \in 1..Len(frame) |-> frame[i].op]

\* C12: the commands of an iteration are a prefix of clear, bind, draw,
\* draw, present, the clear colour is all-zero RGBA, and a presented frame
\* holds all five (one clear, one present, the present last).
C12_FrameStepOrder ==
  /\ Len(frame) <= 5
  /\ FrameOps = SubSeq(<<"clear", "bind", "draw", "draw", "present">>, 1, Len(frame))
  /\ \A i \in 1..Len(frame) : IsClear(frame[i]) => frame[i].color = <<0, 0, 0, 0>>
  /\ Presented => Len(frame) = 5
  /\ pc = "poll" /\ frame # <<>> => Presented

C12_Witness ==
  /\ pc = "poll"
  /\ FrameOps = <<"clear", "bind", "draw", "draw", "present">>
  /\ frame[1].color = <<0, 0, 0, 0>>
  /\ polled = 2

\* C13: the depth test is Disabled in the descriptor of every draw call and
\* in the descriptor held by the frame compositor, whatever was dispatched.
C13_DepthTestDisabled ==
  /\ render_state.depth_test = "Disabled"
  /\ \A i \in 1..Len(Draws) : Draws[i].render_state.depth_test = "Disabled"

\* a frame drawn after a space-release, a b-release and a resize
C13_Witness ==
  /\ Len(Draws) = 2
  /\ toggles = 1
  /\ btoggles = 1
  /\ lastResize # None
  /\ Draws[1].render_state.depth_test = "Disabled"
  /\ Draws[2].render_state.depth_test = "Disabled"

\* the sample points inside both triangles
OverlapPoints == {p \in Points : Covers("red_triangle", p) /\ Covers("blue_triangle", p)}

\* C14: in a presented frame drawn without blending, every point inside
\* both triangles has the colour of the triangle drawn second: blue when
\* the draw-order state is Under, red when it is Atop.
C14_LastWriteWins ==
  /\ OverlapPoints # {}
  /\ (Presented /\ blending = None) =>
       \A p \in OverlapPoints :
         /\ depth_method = "Under" => Pixel(p) = <<0, 0, 1>>
         /\ depth_method = "Atop" => Pixel(p) = <<1, 0, 0>>

C14_Witness ==
  /\ Presented
  /\ blending = None
  /\ depth_method = "Atop"
  /\ <<0, 0>> \in OverlapPoints
  /\ Pixel(<<0, 0>>) = <<1, 0, 0>>

\* C15: in a presented frame drawn with additive blending, every point
\* inside both triangles has the component-wise sum of red and blue,
\* clamped to the full intensity, in both draw-order states.
C15_AdditiveSum ==
  (Presented /\ blending = Some(<<"Additive", "One", "One">>)) =>
    \A p \in OverlapPoints :
      Pixel(p) = [i \in 1..3 |-> Min(1, <<1, 0, 0>>[i] + <<0, 0, 1>>[i])]

C15_Witness ==
  /\ Presented
  /\ blending = Some(<<"Additive", "One", "One">>)
  /\ depth_method = "Atop"
  /\ <<0, 0>> \in OverlapPoints
  /\ Pixel(<<0, 0>>) = <<1, 0, 1>>

\* C16: a failed surface creation or program creation is followed by the
\* panic and by nothing else; the panic is final and comes from nowhere
\* else, and when it happened no event was polled, no command was issued
\* and no frame was presented.
C16_StartupFailureStops ==
  /\ [][(pc \in {"surface_err", "program_err"}) => (pc' = "panicked")]_vars
  /\ [][(pc' = "panicked") => (pc \in {"surface_err", "program_err", "panicked"})]_vars
  /\ [](pc \in {"surface_err", "program_err", "panicked"} =>
          /\ polled = 0
          /\ batch = <<>>
          /\ lastEvent = None
          /\ frame = <<>>)

\* program creation failed after the surface was created
C16_Witness == pc = "panicked" /\ polled = 0 /\ frame = <<>> /\ lastEvent = None

\* the triangles of the draw calls of the frame last presented
ScreenTess ==
  LET d == SelectSeq(screen, IsDraw) IN [i \in 1..Len(d) |-> d[i].tess]

\* C18: taking a close or escape-release event from the batch leaves the
\* loop in that very step, with no command issued in that iteration; from
\* then on nothing changes, so the events behind it stay undispatched and
\* the state left by the events before it is never drawn: the frame last
\* presented stays the one of the previous iteration.
C18_ImmediateExit ==
  /\ [][(Dispatch /\ Head(batch) \in QuitEvents) =>
          /\ pc' = "done"
          /\ frame' = <<>>
          /\ screen' = screen
          /\ <<depth_method, blending, back_buffer>>' = <<depth_method, blending, back_buffer>>]_vars
  /\ [][(pc = "done") => UNCHANGED vars]_vars
  /\ [][(pc' \in {"drain", "done"}) => (screen' = screen)]_vars
  /\ [](pc = "done" => frame = <<>>)

\* a batch of space-release, escape-release and one more event: the loop
\* is left in Atop with the last event pending, the screen still showing
\* the frame drawn in Under
C18_Witness ==
  /\ pc = "done"
  /\ lastEvent = Some(EscapeRelease)
  /\ polled = 3
  /\ toggles = 1
  /\ depth_method = "Atop"
  /\ Len(batch) = 1
  /\ frame = <<>>
  /\ ScreenTess = <<"red_triangle", "blue_triangle">>

\* u is v modulo 2^32: v itself when v >= 0, v + 2^32 when v < 0
U32Wraps(u, v) ==
  /\ u.hi \in 0..(Half - 1)
  /\ u.lo \in 0..(Half - 1)
  /\ IF v >= 0 THEN u.hi < 32768 /\ u.hi * Half + u.lo = v
     ELSE u.hi >= 32768 /\ (u.hi - Half) * Half + u.lo = v

\* C19: taking a resize event from the batch, whatever the signs of its
\* width and height, stays in the event drain (no exit, no panic) and
\* leaves a back buffer whose width and height are those of the event
\* modulo 2^32: the values themselves when non-negative.
C19_ResizeWraps ==
  /\ [][(Dispatch /\ Head(batch).type = "FramebufferSize") =>
          /\ pc' = "drain"
          /\ U32Wraps(back_buffer'.width, Head(batch).width)
          /\ U32Wraps(back_buffer'.height, Head(batch).height)
          /\ Head(batch).width >= 0 => U32Is(back_buffer'.width, Head(batch).width)
          /\ Head(batch).height >= 0 => U32Is(back_buffer'.height, Head(batch).height)]_vars
  /\ [](lastResize # None =>
          /\ U32Wraps(back_buffer.width, lastResize[1][1])
          /\ U32Wraps(back_buffer.height, lastResize[1][2]))

\* a frame cleared at 4294967295 x 600 after a resize event of width -1
C19_Witness ==
  /\ lastResize = Some(<<-1, 600>>)
  /\ back_buffer.width = [hi |-> 65535, lo |-> 65535]
  /\ U32Is(back_buffer.height, 600)
  /\ Presented
  /\ frame[1].target = back_buffer

\* C17: at the top of the loop the poll can always be taken, events or
\* not; every event drain is followed by a presented frame unless the loop
\* is left; and unless the program has stopped (quit or startup panic),
\* frames are presented again and again.
C17_FramesKeepComing ==
  /\ [](pc = "poll" => ENABLED PollEventsLive)
  /\ (pc = "drain") ~> (pc = "done" \/ Presented)
  /\ []<>(Presented \/ pc \in {"done", "panicked"})

\* a frame presented in an iteration whose batch was empty
C17_Witness ==
  /\ Presented
  /\ pc = "poll"
  /\ polled = 0
  /\ lastEvent = None

====
